---- MODULE Spec2Model ----
\* A model of smtrun (bunji2/smtrun): the SMTL front end of go-z3.
\* main.go drives one run; parse.go extracts the statement list of main;
\* process.go compiles statements and expressions into solver terms.
EXTENDS Integers, Sequences, FiniteSets, TLC

\* Longest entry-point body explored.
MaxStmts == 2

-----------------------------------------------------------------------------
\* Errors.  An error value is the message of the fmt.Errorf call that made it
\* plus the name interpolated into it; NoErr is Go's nil error.

NoErr == [msg |-> "nil", name |-> ""]
Err(m, n) == [msg |-> m, name |-> n]

\* The error taxonomy of the specification, by message.
ErrKind(e) ==
  CASE e.msg = "nil" -> "None"
    [] e.msg = "syntax error" -> "SyntaxError"
    [] e.msg = "is not supported package" -> "UnsupportedModule"
    [] e.msg = "is already declared" -> "DuplicateDeclaration"
    [] e.msg \in {"type is not supported", "ArrayType of VarSpec is not supported",
                  "not supported Type of ValueSpec"} -> "UnsupportedType"
    [] e.msg = "is unknown variable" -> "UnknownVariable"
    [] e.msg \in {"not supported Stmt", "not supported Tok of DeclStmt",
                  "not supported X of ExprStmt"} -> "UnsupportedStatement"
    [] e.msg = "assert must have single argument" -> "UnsupportedAssertion"
    [] e.msg = "not supported bop" -> "UnsupportedOperator"
    [] e.msg \in {"not supported Name of Indent",
                  "not supported Fun of CallExpr"} -> "UnsupportedCall"
    [] e.msg = "not supported Sel.Name of SelectorExpr" -> "UnsupportedMethod"
    [] e.msg \in {"too few argument of CallExpr",
                  "distinct must have 2 arguments at least",
                  "imples must have signle argument",
                  "iff must have single argument"} -> "ArityError"
    [] e.msg = "not supported Expr" -> "UnsupportedExpr"
    [] OTHER -> "Other"

-----------------------------------------------------------------------------
\* Syntax trees (go/ast nodes), as records tagged by node type.

Ident(n) == [kind |-> "Ident", name |-> n]
BasicLit(k, v) == [kind |-> "BasicLit", litKind |-> k, value |-> v]
BinaryExpr(x, op, y) == [kind |-> "BinaryExpr", x |-> x, op |-> op, y |-> y]
UnaryExpr(op, x) == [kind |-> "UnaryExpr", op |-> op, x |-> x]
ParenExpr(x) == [kind |-> "ParenExpr", x |-> x]
SelectorExpr(x, sel) == [kind |-> "SelectorExpr", x |-> x, sel |-> sel]
CallExpr(fun, args) == [kind |-> "CallExpr", fun |-> fun, args |-> args]
IndexExpr(x) == [kind |-> "IndexExpr", x |-> x]

ArrayType == [kind |-> "ArrayType"]
NoType == [kind |-> "nil"]
ValueSpec(names, type) == [kind |-> "ValueSpec", names |-> names, type |-> type]
GenDecl(tok, specs) == [kind |-> "GenDecl", tok |-> tok, specs |-> specs]
DeclStmt(d) == [kind |-> "DeclStmt", decl |-> d]
ExprStmt(x) == [kind |-> "ExprStmt", x |-> x]
AssignStmt == [kind |-> "AssignStmt"]

\* Source forms used to write the inputs down.
Var(names, t) == DeclStmt(GenDecl("var", <<ValueSpec(names, Ident(t))>>))
Asrt(e) == ExprStmt(CallExpr(Ident("assert"), <<e>>))
IntLit(v) == BasicLit("INT", v)
Method(recv, sel, args) == CallExpr(SelectorExpr(recv, sel), args)
Call(f, args) == CallExpr(Ident(f), args)

-----------------------------------------------------------------------------
\* Solver terms (*z3.AST).  Nil is the Go nil pointer.  A declared constant
\* carries the place of the ctx.Const call that allocated it (statement index
\* and position in the name list), which is what tells two handles apart.

Nil == [op |-> "nil", sort |-> "none", name |-> "", val |-> <<>>, at |-> <<>>, args |-> <<>>]
Term(op, sort, args) == [op |-> op, sort |-> sort, name |-> "", val |-> <<>>, at |-> <<>>, args |-> args]
Const(name, sort, at) == [op |-> "const", sort |-> sort, name |-> name, val |-> <<>>, at |-> at, args |-> <<>>]
IntTerm(v) == [op |-> "int", sort |-> "Int", name |-> "", val |-> v, at |-> <<>>, args |-> <<>>]
True == Term("true", "Bool", <<>>)
False == Term("false", "Bool", <<>>)

\* What a compile function hands back: the term r, the error err, whether the
\* call panicked (a nil *z3.AST was dereferenced), and the log of the leaves
\* compiled, in the order they were compiled: for each the leaf (an identifier
\* by its name, a literal as LitTag) and the term and error it gave.
LitTag == "#lit"
Leaf(leaf, r, e) == [leaf |-> leaf, litKind |-> "", value |-> <<>>, r |-> r, err |-> e]
LitLeaf(lit, r, e) == [leaf |-> LitTag, litKind |-> lit.litKind, value |-> lit.value, r |-> r, err |-> e]
Ret(r, e, log) == [r |-> r, err |-> e, panic |-> FALSE, log |-> log]
Panic(log) == [r |-> Nil, err |-> NoErr, panic |-> TRUE, log |-> log]

-----------------------------------------------------------------------------
\* strconv.Atoi on the text of a literal (a sequence of characters), for a
\* 64-bit int: an optional sign, then decimal digits only, and a value within
\* the int range.  The value is kept as its digits without leading zeros.

Digits == <<"0", "1", "2", "3", "4", "5", "6", "7", "8", "9">>
IsDigit(c) == \E d \in 1..10 : Digits[d] = c
DigitVal(c) == (CHOOSE d \in 1..10 : Digits[d] = c) - 1
MaxInt64 == <<"9","2","2","3","3","7","2","0","3","6","8","5","4","7","7","5","8","0","7">>

RECURSIVE StripZeros(_)
StripZeros(s) ==
  IF Len(s) > 1 /\ Head(s) = "0" THEN StripZeros(Tail(s)) ELSE s

RECURSIVE DigitsLeq(_, _)
\* a <= b for two digit strings of the same length
DigitsLeq(a, b) ==
  IF Len(a) = 0 THEN TRUE
  ELSE IF DigitVal(Head(a)) < DigitVal(Head(b)) THEN TRUE
  ELSE IF DigitVal(Head(a)) > DigitVal(Head(b)) THEN FALSE
  ELSE DigitsLeq(Tail(a), Tail(b))

InRange(s) ==
  LET d == StripZeros(s)
  IN  \/ Len(d) < Len(MaxInt64)
      \/ Len(d) = Len(MaxInt64) /\ DigitsLeq(d, MaxInt64)

Atoi(s) ==
  LET body == IF Len(s) > 0 /\ Head(s) \in {"+", "-"} THEN Tail(s) ELSE s
  IN  IF Len(body) = 0 THEN [ok |-> FALSE, val |-> <<>>]
      ELSE IF \E i \in 1..Len(body) : ~IsDigit(body[i]) THEN [ok |-> FALSE, val |-> <<>>]
      ELSE IF ~InRange(body) THEN [ok |-> FALSE, val |-> <<>>]
      ELSE [ok |-> TRUE, val |-> StripZeros(body)]

-----------------------------------------------------------------------------
\* The go-z3 term constructors.  Each reads the raw handle of its receiver and
\* of its arguments, so a nil among them is a nil-pointer panic.

SortOfOp(op) == IF op \in {"Add", "Sub", "Mul"} THEN "Int" ELSE "Bool"

\* The method of *z3.AST each supported binary token dispatches to.
BopMethod(op) ==
  CASE op = "+" -> "Add"
    [] op = "-" -> "Sub"
    [] op = "*" -> "Mul"
    [] op = "&&" -> "And"
    [] op = "||" -> "Or"
    [] op = "==" -> "Eq"
    [] op = "<" -> "Lt"
    [] op = ">" -> "Gt"
    [] op = "!=" -> "Eq"
    [] op = "<=" -> "Le"
    [] op = ">=" -> "Ge"
    [] OTHER -> "none"

HasNil(ts) == \E k \in 1..Len(ts) : ts[k] = Nil

\* processBOP: one constructor per supported operator, != as Eq then Not.
processBOP(op, x, y, log) ==
  IF BopMethod(op) = "none" THEN Ret(Nil, Err("not supported bop", ""), log)
  ELSE IF HasNil(<<x, y>>) THEN Panic(log)
  ELSE IF op = "!=" THEN Ret(Term("Not", "Bool", <<Term("Eq", "Bool", <<x, y>>)>>), NoErr, log)
  ELSE Ret(Term(BopMethod(op), SortOfOp(BopMethod(op)), <<x, y>>), NoErr, log)

\* processIdent: true and false are constants, any other name is looked up.
processIdent(varTab, ident) ==
  CASE ident.name = "true" -> Ret(True, NoErr, <<Leaf(ident.name, True, NoErr)>>)
    [] ident.name = "false" -> Ret(False, NoErr, <<Leaf(ident.name, False, NoErr)>>)
    [] OTHER ->
         IF ident.name \in DOMAIN varTab
         THEN Ret(varTab[ident.name], NoErr, <<Leaf(ident.name, varTab[ident.name], NoErr)>>)
         ELSE Ret(Nil, Err("is unknown variable", ident.name),
                  <<Leaf(ident.name, Nil, Err("is unknown variable", ident.name))>>)

\* processBasicLit: the err of strconv.Atoi is a new variable of the inner
\* block, so the function's own err stays nil on every path.
processBasicLit(lit) ==
  IF lit.litKind = "INT"
  THEN LET a == Atoi(lit.value)
       IN  IF a.ok THEN Ret(IntTerm(a.val), NoErr, <<LitLeaf(lit, IntTerm(a.val), NoErr)>>)
           ELSE Ret(Nil, NoErr, <<LitLeaf(lit, Nil, NoErr)>>)
  ELSE Ret(Nil, NoErr, <<LitLeaf(lit, Nil, NoErr)>>)

RECURSIVE processExpr(_, _)

\* processBinaryExpr with both operands compiled before either error is
\* looked at, the right operand's error taking precedence.
processBinaryExprBoth(varTab, be) ==
  LET X == processExpr(varTab, be.x)
      Y == processExpr(varTab, be.y)
      log == X.log \o Y.log
  IN  IF X.panic \/ Y.panic THEN Panic(log)
      ELSE IF Y.err # NoErr THEN Ret(Nil, Y.err, log)
      ELSE IF X.err # NoErr THEN Ret(Nil, X.err, log)
      ELSE processBOP(be.op, X.r, Y.r, log)

\* processBinaryExpr: left operand, then right operand, then the operator.
processBinaryExpr(varTab, be) ==
  LET X == processExpr(varTab, be.x)
  IN  IF X.panic \/ X.err # NoErr THEN [X EXCEPT !.r = Nil]
      ELSE LET Y == processExpr(varTab, be.y)
           IN  IF Y.panic \/ Y.err # NoErr
               THEN [Y EXCEPT !.r = Nil, !.log = X.log \o Y.log]
               ELSE processBOP(be.op, X.r, Y.r, X.log \o Y.log)

\* processUnaryExpr: the operand, then the operator (only ! is supported).
processUnaryExpr(varTab, ue) ==
  LET X == processExpr(varTab, ue.x)
  IN  IF X.panic \/ X.err # NoErr THEN [X EXCEPT !.r = Nil]
      ELSE IF ue.op # "!" THEN Ret(Nil, Err("not supported bop", ""), X.log)
      ELSE IF X.r = Nil THEN Panic(X.log)
      ELSE Ret(Term("Not", "Bool", <<X.r>>), NoErr, X.log)

\* The argument loop of processCallExpr from argument k on: compile each
\* argument in order, stop at the first error, collect the compiled terms.
RECURSIVE CallArgs(_, _, _, _)
CallArgs(varTab, as, k, acc) ==
  IF k > Len(as) THEN acc
  ELSE LET E == processExpr(varTab, as[k])
           log == acc.log \o E.log
       IN  IF E.panic THEN [acc EXCEPT !.panic = TRUE, !.log = log]
           ELSE IF E.err # NoErr THEN [acc EXCEPT !.err = E.err, !.log = log]
           ELSE CallArgs(varTab, as, k + 1,
                         [acc EXCEPT !.args = Append(@, E.r), !.err = NoErr, !.log = log])

\* The Ident case of the switch on ce.Fun; err is the error so far.
CallIdent(name, args, err, log) ==
  IF name = "distinct"
  THEN IF Len(args) > 1
       THEN IF HasNil(args) THEN Panic(log)
            ELSE Ret(Term("Distinct", "Bool", args), err, log)
       ELSE Ret(Nil, Err("distinct must have 2 arguments at least", ""), log)
  ELSE Ret(Nil, Err("not supported Name of Indent", ""), log)

\* The SelectorExpr case of the switch on ce.Fun: the receiver is compiled
\* into err, replacing the error so far.
CallSelector(varTab, se, args, log0) ==
  LET E == processExpr(varTab, se.x)
      log == log0 \o E.log
  IN  IF E.panic THEN Panic(log)
      ELSE IF E.err # NoErr THEN Ret(Nil, E.err, log)
      ELSE CASE se.sel = "implies" ->
                  IF Len(args) = 1
                  THEN IF E.r = Nil \/ HasNil(args) THEN Panic(log)
                       ELSE Ret(Term("Implies", "Bool", <<E.r, args[1]>>), NoErr, log)
                  ELSE Ret(Nil, Err("imples must have signle argument", ""), log)
             [] se.sel = "iff" ->
                  IF Len(args) = 1
                  THEN IF E.r = Nil \/ HasNil(args) THEN Panic(log)
                       ELSE Ret(Term("Iff", "Bool", <<E.r, args[1]>>), NoErr, log)
                  ELSE Ret(Nil, Err("iff must have single argument", ""), log)
             [] OTHER -> Ret(Nil, Err("not supported Sel.Name of SelectorExpr", ""), log)

\* processCallExpr: the arguments first, then the zero-argument check, then
\* the switch on the callee; no step returns early on the error of an earlier one.
processCallExpr(varTab, ce) ==
  LET A == CallArgs(varTab, ce.args, 1, [args |-> <<>>, err |-> NoErr, panic |-> FALSE, log |-> <<>>])
      err == IF Len(A.args) = 0 THEN Err("too few argument of CallExpr", "") ELSE A.err
  IN  IF A.panic THEN Panic(A.log)
      ELSE CASE ce.fun.kind = "Ident" -> CallIdent(ce.fun.name, A.args, err, A.log)
             [] ce.fun.kind = "SelectorExpr" -> CallSelector(varTab, ce.fun, A.args, A.log)
             [] OTHER -> Ret(Nil, Err("not supported Fun of CallExpr", ""), A.log)

\* processExpr: dispatch on the node type.
processExpr(varTab, expr) ==
  CASE expr.kind = "Ident" -> processIdent(varTab, expr)
    [] expr.kind = "BasicLit" -> processBasicLit(expr)
    [] expr.kind = "BinaryExpr" -> processBinaryExpr(varTab, expr)
    [] expr.kind = "UnaryExpr" -> processUnaryExpr(varTab, expr)
    [] expr.kind = "CallExpr" -> processCallExpr(varTab, expr)
    [] expr.kind = "ParenExpr" -> processExpr(varTab, expr.x)
    [] OTHER -> Ret(Nil, Err("not supported Expr", ""), <<>>)

-----------------------------------------------------------------------------
\* The statement compiler.  A statement function hands back the symbol table
\* and the solver's assertions as it left them, its error, and whether it
\* panicked.

StmtRet(varTab, cons, err) == [varTab |-> varTab, cons |-> cons, err |-> err, panic |-> FALSE]
StmtPanic(varTab, cons) == [varTab |-> varTab, cons |-> cons, err |-> NoErr, panic |-> TRUE]

\* varTab[name] = t
Bind(varTab, name, t) ==
  [n \in DOMAIN varTab \cup {name} |-> IF n = name THEN t ELSE varTab[n]]

\* The sort switch of processVarSpec: the sort, or the error.
VarSort(type) ==
  CASE type.kind = "Ident" ->
         CASE type.name = "int" -> [sort |-> "Int", err |-> NoErr]
           [] type.name = "bool" -> [sort |-> "Bool", err |-> NoErr]
           [] OTHER -> [sort |-> "none", err |-> Err("type is not supported", type.name)]
    [] type.kind = "ArrayType" ->
         [sort |-> "none", err |-> Err("ArrayType of VarSpec is not supported", "")]
    [] OTHER -> [sort |-> "none", err |-> Err("not supported Type of ValueSpec", "")]

\* The test of processVarSpec that a name is taken.
IsDeclared(varTab, name) == name \in DOMAIN varTab

\* The name loop of processVarSpec from name k on; at is the statement index.
RECURSIVE VarNames(_, _, _, _, _)
VarNames(varTab, names, k, sort, at) ==
  IF k > Len(names) THEN [varTab |-> varTab, err |-> NoErr]
  ELSE IF IsDeclared(varTab, names[k])
       THEN [varTab |-> varTab, err |-> Err("is already declared", names[k])]
       ELSE VarNames(Bind(varTab, names[k], Const(names[k], sort, <<at, k>>)),
                     names, k + 1, sort, at)

\* processVarSpec: the sort first, then every name of the spec in order.
processVarSpec(varTab, vs, at) ==
  LET S == VarSort(vs.type)
  IN  IF S.err # NoErr THEN [varTab |-> varTab, err |-> S.err]
      ELSE VarNames(varTab, vs.names, 1, S.sort, at)

\* processDeclStmt: a var declaration compiles its first spec, gd.Specs[0]
\* (an index out of range when the group is empty); any other token is an error.
processDeclStmt(varTab, cons, decl, at) ==
  IF decl.decl.tok = "var"
  THEN IF Len(decl.decl.specs) = 0 THEN StmtPanic(varTab, cons)
       ELSE LET V == processVarSpec(varTab, decl.decl.specs[1], at)
            IN  StmtRet(V.varTab, cons, V.err)
  ELSE StmtRet(varTab, cons, Err("not supported Tok of DeclStmt", ""))

\* s.Assert(x) putting the term in front of the earlier assertions.
SolverAssertFront(cons, x) == <<x>> \o cons

\* s.Assert(x): the term is handed to the solver as it is.
SolverAssert(cons, x) == Append(cons, x)

\* processExprStmt: only assert(e) with one argument; the compiled term is
\* asserted.
processExprStmt(varTab, cons, es) ==
  IF es.x.kind = "CallExpr"
  THEN IF es.x.fun.kind = "Ident" /\ es.x.fun.name = "assert"
       THEN IF Len(es.x.args) # 1
            THEN StmtRet(varTab, cons, Err("assert must have single argument", ""))
            ELSE LET X == processExpr(varTab, es.x.args[1])
                 IN  IF X.panic THEN StmtPanic(varTab, cons)
                     ELSE IF X.err # NoErr THEN StmtRet(varTab, cons, X.err)
                     ELSE IF X.r = Nil THEN StmtPanic(varTab, cons)
                     ELSE StmtRet(varTab, SolverAssert(cons, X.r), NoErr)
       ELSE StmtRet(varTab, cons, Err("not supported Fun of CallExpr", ""))
  ELSE StmtRet(varTab, cons, Err("not supported X of ExprStmt", ""))

\* processStmt: dispatch on the statement type.
processStmt(varTab, cons, stmt, at) ==
  CASE stmt.kind = "DeclStmt" -> processDeclStmt(varTab, cons, stmt, at)
    [] stmt.kind = "ExprStmt" -> processExprStmt(varTab, cons, stmt)
    [] OTHER -> StmtRet(varTab, cons, Err("not supported Stmt", ""))

\* Whether a statement reaches the processExpr call of processExprStmt.
IsAssert(stmt) ==
  /\ stmt.kind = "ExprStmt"
  /\ stmt.x.kind = "CallExpr"
  /\ stmt.x.fun.kind = "Ident"
  /\ stmt.x.fun.name = "assert"
  /\ Len(stmt.x.args) = 1

-----------------------------------------------------------------------------
\* The syntax adapter.  A file is what parser.ParseFile makes of it: whether it
\* parsed, its package name and its top-level declarations.

FuncDecl(name, nparams, hasBody, body) ==
  [kind |-> "FuncDecl", name |-> name, nparams |-> nparams, hasBody |-> hasBody, body |-> body]
TopGenDecl == [kind |-> "GenDecl", name |-> "", nparams |-> 0, hasBody |-> FALSE, body |-> <<>>]
File(ok, pkg, decls) == [syntaxOK |-> ok, pkg |-> pkg, decls |-> decls]

smtlPkgName == "smtl"

\* The declaration loop of parseSmtlFile from declaration k on: the body of the
\* first function declaration named main (a nil pointer when it has no body).
RECURSIVE FindMain(_, _)
FindMain(decls, k) ==
  IF k > Len(decls) THEN [stmts |-> <<>>, err |-> NoErr, panic |-> FALSE]
  ELSE IF decls[k].kind = "FuncDecl" /\ decls[k].name = "main"
       THEN IF decls[k].hasBody
            THEN [stmts |-> decls[k].body, err |-> NoErr, panic |-> FALSE]
            ELSE [stmts |-> <<>>, err |-> NoErr, panic |-> TRUE]
       ELSE FindMain(decls, k + 1)

parseSmtlFile(f) ==
  IF ~f.syntaxOK THEN [stmts |-> <<>>, err |-> Err("syntax error", ""), panic |-> FALSE]
  ELSE IF f.pkg # smtlPkgName
       THEN [stmts |-> <<>>, err |-> Err("is not supported package", f.pkg), panic |-> FALSE]
       ELSE FindMain(f.decls, 1)

-----------------------------------------------------------------------------
\* Inputs: the statements and files a run is given.

X == Ident("x")
Y == Ident("y")
Z == Ident("z")
B == Ident("b")
One == IntLit(<<"1">>)
Hex == IntLit(<<"0", "x", "1">>)
Bin == IntLit(<<"0", "b", "1">>)
Underscore == IntLit(<<"1", "_", "0">>)
LeadingZero == IntLit(<<"0", "1", "7">>)
TooBig == IntLit(<<"9","2","2","3","3","7","2","0","3","6","8","5","4","7","7","5","8","0","8">>)
Float == BasicLit("FLOAT", <<"1", ".", "5">>)
String == BasicLit("STRING", <<"s">>)
Char == BasicLit("CHAR", <<"c">>)

StmtPool == <<
  \* declarations
  Var(<<"x">>, "int"),
  Var(<<"b">>, "bool"),
  Var(<<"a", "x">>, "int"),
  Var(<<"c", "b", "a">>, "bool"),
  Var(<<"x">>, "real"),
  DeclStmt(GenDecl("var", <<ValueSpec(<<"a">>, Ident("bool")), ValueSpec(<<"x">>, Ident("int"))>>)),
  DeclStmt(GenDecl("var", <<ValueSpec(<<"x">>, ArrayType)>>)),
  DeclStmt(GenDecl("var", <<ValueSpec(<<"x">>, NoType)>>)),
  DeclStmt(GenDecl("const", <<ValueSpec(<<"x">>, Ident("int"))>>)),
  DeclStmt(GenDecl("var", <<>>)),
  \* statements outside the language
  AssignStmt,
  ExprStmt(X),
  ExprStmt(Call("foo", <<X>>)),
  ExprStmt(Call("assert", <<>>)),
  ExprStmt(Call("assert", <<Ident("true"), Ident("true")>>)),
  \* assertions over identifiers and operators
  Asrt(Ident("true")),
  Asrt(Ident("false")),
  Asrt(B),
  Asrt(Y),
  Asrt(BinaryExpr(X, "==", One)),
  Asrt(BinaryExpr(X, "!=", One)),
  Asrt(BinaryExpr(X, "+", One)),
  Asrt(BinaryExpr(BinaryExpr(X, "+", Y), "==", One)),
  Asrt(BinaryExpr(Y, "+", Z)),
  Asrt(BinaryExpr(Y, "%", Z)),
  Asrt(BinaryExpr(X, "%", X)),
  Asrt(UnaryExpr("!", B)),
  Asrt(UnaryExpr("!", Y)),
  Asrt(UnaryExpr("-", X)),
  Asrt(ParenExpr(B)),
  Asrt(ParenExpr(Y)),
  Asrt(IndexExpr(X)),
  \* calls
  Asrt(Call("distinct", <<>>)),
  Asrt(Call("distinct", <<X>>)),
  Asrt(Call("distinct", <<X, One>>)),
  Asrt(Call("distinct", <<Y, X>>)),
  Asrt(Call("distinct", <<X, One, Y>>)),
  Asrt(Call("foo", <<>>)),
  Asrt(Call("foo", <<X>>)),
  Asrt(CallExpr(ParenExpr(B), <<>>)),
  \* method calls
  Asrt(Method(B, "implies", <<B>>)),
  Asrt(Method(B, "iff", <<Ident("false")>>)),
  Asrt(Method(B, "implies", <<Y>>)),
  Asrt(Method(Y, "implies", <<B>>)),
  Asrt(Method(Y, "iff", <<Z>>)),
  Asrt(Method(B, "implies", <<B, Y>>)),
  Asrt(Method(B, "iff", <<B, B>>)),
  Asrt(Method(B, "implies", <<>>)),
  Asrt(Method(B, "foo", <<B>>)),
  Asrt(Method(B, "foo", <<>>)),
  \* literals
  Asrt(BinaryExpr(X, "==", LeadingZero)),
  Asrt(BinaryExpr(X, "==", Hex)),
  Asrt(BinaryExpr(X, "==", Underscore)),
  Asrt(BinaryExpr(X, "==", TooBig)),
  Asrt(BinaryExpr(X, "==", Float)),
  Asrt(Bin),
  Asrt(String),
  Asrt(Call("foo", <<Char>>)),
  Asrt(Method(B, "implies", <<Hex, Float>>))
>>

\* The body made of the pool statements idx[1], idx[2], ...
Body(idx) == [k \in DOMAIN idx |-> StmtPool[idx[k]]]

\* The files around a body: the documented shape, and the other shapes
\* parseSmtlFile can meet.
NumShapes == 8
FileOf(shape, body) ==
  CASE shape = 1 -> File(TRUE, "smtl", <<FuncDecl("main", 0, TRUE, body)>>)
    [] shape = 2 -> File(FALSE, "smtl", <<FuncDecl("main", 0, TRUE, body)>>)
    [] shape = 3 -> File(TRUE, "main", <<FuncDecl("main", 0, TRUE, body)>>)
    [] shape = 4 -> File(TRUE, "smtl", <<TopGenDecl, FuncDecl("helper", 0, TRUE, <<AssignStmt>>)>>)
    [] shape = 5 -> File(TRUE, "smtl", <<FuncDecl("helper", 0, TRUE, <<AssignStmt>>),
                                         FuncDecl("main", 0, TRUE, body),
                                         FuncDecl("main", 0, TRUE, <<AssignStmt>>)>>)
    [] shape = 6 -> File(TRUE, "smtl", <<FuncDecl("main", 1, TRUE, body)>>)
    [] shape = 7 -> File(TRUE, "smtl", <<FuncDecl("main", 0, FALSE, <<>>)>>)
    [] OTHER -> File(TRUE, "smtl", <<>>)

-----------------------------------------------------------------------------
\* The run.

VARIABLES
  pc,        \* where run() is
  nArgs,     \* len(os.Args)
  file,      \* the file at os.Args[1]
  stmts,     \* the statement list parseSmtlFile returned
  i,         \* the statement the loop of processSmtlFile is at
  varTab,    \* the symbol table: name -> term handle
  solver,    \* s of processSmtlFile: NoSolver, or the assertions made on it
  err,       \* err of processSmtlFile
  last,      \* what processExpr returned for the latest assert argument
  verdict,   \* what solver.Check() returned, "none" until it is called
  out,       \* the lines written to standard output
  errOut,    \* the lines written to standard error
  exitCode   \* the exit status, -1 while running

vars == <<pc, nArgs, file, stmts, i, varTab, solver, err, last, verdict, out, errOut, exitCode>>

NoSolver == [open |-> FALSE, cons |-> <<>>]
NewSolver == [open |-> TRUE, cons |-> <<>>]
EmptyTab == [n \in {} |-> Nil]
NoLast == [r |-> Nil, err |-> NoErr, panic |-> FALSE, log |-> <<>>, at |-> 0]
Compiled(R, at) == [r |-> R.r, err |-> R.err, panic |-> R.panic, log |-> R.log, at |-> at]

Init ==
  /\ pc = "start"
  /\ \E n \in 0..MaxStmts, shape \in 1..NumShapes, a \in 1..3 :
       /\ shape = 1 \/ n <= 1
       /\ a = 2 \/ n = 0
       /\ nArgs = a
       /\ \E idx \in [1..n -> 1..Len(StmtPool)] : file = FileOf(shape, Body(idx))
  /\ stmts = <<>>
  /\ i = 0
  /\ varTab = EmptyTab
  /\ solver = NoSolver
  /\ err = NoErr
  /\ last = NoLast
  /\ verdict = "none"
  /\ out = <<>>
  /\ errOut = <<>>
  /\ exitCode = -1

\* An unrecovered panic ends the process with exit status 2 and the panic
\* message on standard error.
Crash ==
  /\ pc' = "exit"
  /\ exitCode' = 2
  /\ errOut' = Append(errOut, [kind |-> "panic", err |-> NoErr])

\* run, up to the call of processSmtlFile: the argument check and the banner.
Start ==
  /\ pc = "start"
  /\ IF nArgs < 2
     THEN /\ pc' = "exit"
          /\ exitCode' = 1
          /\ errOut' = Append(errOut, [kind |-> "usage", err |-> NoErr])
          /\ out' = out
     ELSE /\ pc' = "parse"
          /\ out' = Append(out, [kind |-> "banner", name |-> ""])
          /\ UNCHANGED <<exitCode, errOut>>
  /\ UNCHANGED <<nArgs, file, stmts, i, varTab, solver, err, last, verdict>>

\* processSmtlFile, up to its loop: parse, return on error, make the solver.
Parse ==
  /\ pc = "parse"
  /\ LET P == parseSmtlFile(file)
     IN  IF P.panic
         THEN Crash /\ UNCHANGED <<stmts, i, solver, err>>
         ELSE IF P.err # NoErr
         THEN /\ err' = P.err
              /\ pc' = "returned"
              /\ UNCHANGED <<stmts, i, solver, exitCode, errOut>>
         ELSE /\ stmts' = P.stmts
              /\ solver' = NewSolver
              /\ i' = 1
              /\ pc' = "loop"
              /\ UNCHANGED <<err, exitCode, errOut>>
  /\ UNCHANGED <<nArgs, file, varTab, last, verdict, out>>

\* The loop of processSmtlFile without its break.
NeverBreaks(e) == FALSE

\* The loop of processSmtlFile leaves at the first error.
LoopBreaks(e) == e # NoErr

\* One iteration of the loop of processSmtlFile: processStmt on statement i.
Step ==
  /\ pc = "loop"
  /\ i <= Len(stmts)
  /\ LET R == processStmt(varTab, solver.cons, stmts[i], i)
     IN  /\ varTab' = R.varTab
         /\ solver' = [solver EXCEPT !.cons = R.cons]
         /\ last' = IF IsAssert(stmts[i])
                    THEN Compiled(processExpr(varTab, stmts[i].x.args[1]), i)
                    ELSE last
         /\ IF R.panic
            THEN Crash /\ UNCHANGED <<err, i>>
            ELSE /\ err' = R.err
                 /\ i' = i + 1
                 /\ pc' = IF LoopBreaks(R.err) THEN "returned" ELSE "loop"
                 /\ UNCHANGED <<exitCode, errOut>>
  /\ UNCHANGED <<nArgs, file, stmts, verdict, out>>

\* The loop ran out of statements: processSmtlFile returns s and err.
LoopEnd ==
  /\ pc = "loop"
  /\ i > Len(stmts)
  /\ pc' = "returned"
  /\ UNCHANGED <<nArgs, file, stmts, i, varTab, solver, err, last, verdict, out, errOut, exitCode>>

\* run, on an error of processSmtlFile: the message and exit status 2.
Fail ==
  /\ pc = "returned"
  /\ err # NoErr
  /\ errOut' = Append(errOut, [kind |-> "error", err |-> err])
  /\ exitCode' = 2
  /\ pc' = "exit"
  /\ UNCHANGED <<nArgs, file, stmts, i, varTab, solver, err, last, verdict, out>>

\* The verdicts of solver.Check(): z3.True, z3.False, z3.Undef.
Verdicts == {"True", "False", "Undef"}

\* The test of run on the verdict, as a test for z3.False.
UnsolvableOnlyFalse(v) == v = "False"

\* The test of run on the verdict: anything but z3.True is unsolvable.
Unsolvable(v) == v # "True"

\* run, on success of processSmtlFile: the check and its verdict.
Check ==
  /\ pc = "returned"
  /\ err = NoErr
  /\ \E v \in Verdicts :
       /\ verdict' = v
       /\ IF Unsolvable(v)
          THEN /\ out' = Append(out, [kind |-> "Unsolveable", name |-> ""])
               /\ exitCode' = 3
               /\ pc' = "exit"
          ELSE /\ pc' = "render"
               /\ UNCHANGED <<out, exitCode>>
  /\ UNCHANGED <<nArgs, file, stmts, i, varTab, solver, err, last, errOut>>

\* The order of sort.Strings on the names in use (byte-wise comparison).
NameOrder == <<"a", "b", "c", "x", "y", "z">>
Rank(n) == CHOOSE k \in 1..Len(NameOrder) : NameOrder[k] = n
StrLess(m, n) == Rank(m) < Rank(n)

\* sort.Strings with the comparison turned round.
RECURSIVE SortStringsDescending(_)
SortStringsDescending(S) ==
  IF S = {} THEN <<>>
  ELSE LET m == CHOOSE n \in S : \A o \in S : ~StrLess(n, o)
       IN  <<m>> \o SortStringsDescending(S \ {m})

\* sort.Strings over the names of the symbol table.
RECURSIVE SortStrings(_)
SortStrings(S) ==
  IF S = {} THEN <<>>
  ELSE LET m == CHOOSE n \in S : \A o \in S : ~StrLess(o, n)
       IN  <<m>> \o SortStrings(S \ {m})

\* run, on a satisfiable verdict: one line per name of the symbol table, in
\* sorted order, and exit status 0.
Render ==
  /\ pc = "render"
  /\ LET names == SortStrings(DOMAIN varTab)
     IN  out' = out \o [k \in 1..Len(names) |-> [kind |-> "model", name |-> names[k]]]
  /\ exitCode' = 0
  /\ pc' = "exit"
  /\ UNCHANGED <<nArgs, file, stmts, i, varTab, solver, err, last, verdict, errOut>>

Next == Start \/ Parse \/ Step \/ LoopEnd \/ Fail \/ Check \/ Render

Spec == Init /\ [][Next]_vars

-----------------------------------------------------------------------------
\* Properties.

\* The argument of the latest compiled assert, and whether the latest
\* statement the loop processed was that assert (the loop position is one
\* past it, or still on it when the statement panicked).
LastExpr == stmts[last.at].x.args[1]
JustCompiled == last.at > 0 /\ last.at >= i - 1

\* C1: compilation is fail-fast.  No iteration of the loop starts after an
\* error; once err is set, the symbol table, the constraints, the loop
\* position and err stay as they are; and the error run reports is that err,
\* the error of the first statement that failed.
C1_FailFast ==
  [][ /\ (pc' = "loop" => err' = NoErr)
      /\ (err # NoErr => varTab' = varTab /\ solver' = solver /\ i' = i /\ err' = err)
      /\ (pc' = "exit" /\ err' # NoErr =>
            exitCode' = 2 /\ errOut' = <<[kind |-> "error", err |-> err']>>) ]_vars

\* A run that failed at a statement and left a later statement unprocessed.
C1_Witness ==
  /\ pc = "exit"
  /\ exitCode = 2
  /\ err # NoErr
  /\ solver.open
  /\ i <= Len(stmts)

\* C2 (as claimed): when compilation fails, the solver handed back with the
\* error carries no constraint.
C2_NoPartialConstraintSet ==
  (pc = "returned" /\ err # NoErr) => solver.cons = <<>>

\* C3 (as claimed): when a sub-expression that was compiled fails, the
\* enclosing expression fails with that error and yields no term.
C3_NoPartialTerm ==
  JustCompiled /\ ~last.panic =>
    \A k \in 1..Len(last.log) :
      last.log[k].err # NoErr => last.err = last.log[k].err /\ last.r = Nil

\* The identifiers an expression references, at any position.
RECURSIVE IdentsOf(_)
IdentsOf(e) ==
  CASE e.kind = "Ident" -> {e.name}
    [] e.kind = "BinaryExpr" -> IdentsOf(e.x) \cup IdentsOf(e.y)
    [] e.kind \in {"UnaryExpr", "ParenExpr"} -> IdentsOf(e.x)
    [] e.kind = "CallExpr" ->
         (IF e.fun.kind = "SelectorExpr" THEN IdentsOf(e.fun.x) ELSE {})
           \cup UNION {IdentsOf(e.args[k]) : k \in 1..Len(e.args)}
    [] OTHER -> {}

\* An expression of the SMTL grammar: no fault other than, possibly, the
\* identifiers it names.
RECURSIVE InGrammar(_)
InGrammar(e) ==
  CASE e.kind = "Ident" -> TRUE
    [] e.kind = "BasicLit" -> e.litKind = "INT" /\ Atoi(e.value).ok
    [] e.kind = "BinaryExpr" ->
         /\ e.op \in {"+", "-", "*", "&&", "||", "==", "!=", "<", ">", "<=", ">="}
         /\ InGrammar(e.x) /\ InGrammar(e.y)
    [] e.kind = "UnaryExpr" -> e.op = "!" /\ InGrammar(e.x)
    [] e.kind = "ParenExpr" -> InGrammar(e.x)
    [] e.kind = "CallExpr" ->
         /\ \A k \in 1..Len(e.args) : InGrammar(e.args[k])
         /\ \/ e.fun.kind = "Ident" /\ e.fun.name = "distinct" /\ Len(e.args) >= 2
            \/ /\ e.fun.kind = "SelectorExpr"
               /\ e.fun.sel \in {"implies", "iff"}
               /\ Len(e.args) = 1
               /\ InGrammar(e.fun.x)
    [] OTHER -> FALSE

Unknowns(e) == IdentsOf(e) \ (DOMAIN varTab \cup {"true", "false"})

\* C4 (as claimed): an assert that names an identifier missing from the
\* symbol table, and is otherwise in the grammar, fails with UnknownVariable
\* naming such an identifier.
C4_UnknownVariable ==
  JustCompiled /\ InGrammar(LastExpr) /\ Unknowns(LastExpr) # {} =>
    /\ ErrKind(last.err) = "UnknownVariable"
    /\ last.err.name \in Unknowns(LastExpr)

\* The names a var declaration statement declares, over all its specs.
DeclNames(stmt) ==
  UNION {{stmt.decl.specs[k].names[n] : n \in 1..Len(stmt.decl.specs[k].names)} :
           k \in 1..Len(stmt.decl.specs)}
IsVarDecl(stmt) == stmt.kind = "DeclStmt" /\ stmt.decl.tok = "var"
SortsSupported(stmt) ==
  \A k \in 1..Len(stmt.decl.specs) :
    stmt.decl.specs[k].type.kind = "Ident" /\ stmt.decl.specs[k].type.name \in {"int", "bool"}

\* C5 (as claimed, for declarations of a supported sort): a handle once bound
\* is never replaced, and a declaration of a name already in the symbol table
\* fails with DuplicateDeclaration of such a name.
C5_DeclaredOnce ==
  [][ /\ \A n \in DOMAIN varTab : n \in DOMAIN varTab' /\ varTab'[n] = varTab[n]
      /\ (/\ pc = "loop" /\ i <= Len(stmts)
          /\ IsVarDecl(stmts[i]) /\ SortsSupported(stmts[i])
          /\ DeclNames(stmts[i]) \cap DOMAIN varTab # {}
          => /\ ErrKind(err') = "DuplicateDeclaration"
             /\ err'.name \in DeclNames(stmts[i]) \cap DOMAIN varTab
             /\ pc' = "returned") ]_vars

\* C6 (as claimed): a literal compiles to an Int-sorted term or fails.
C6_LiteralTermOrError ==
  JustCompiled =>
    \A k \in 1..Len(last.log) :
      last.log[k].leaf = LitTag =>
        \/ last.log[k].r # Nil /\ last.log[k].r.sort = "Int"
        \/ last.log[k].err # NoErr

\* C7 (as claimed): a call without arguments, and distinct with one argument,
\* fail with ArityError.
C7_TooFewArguments ==
  JustCompiled /\ LastExpr.kind = "CallExpr" =>
    /\ Len(LastExpr.args) = 0 => ErrKind(last.err) = "ArityError"
    /\ (/\ LastExpr.fun.kind = "Ident" /\ LastExpr.fun.name = "distinct"
        /\ Len(LastExpr.args) = 1) => ErrKind(last.err) = "ArityError"

IsMethodCall(e) == e.kind = "CallExpr" /\ e.fun.kind = "SelectorExpr"

\* C8 (as claimed): in receiver.name(argument) over two different identifiers
\* the receiver is the first leaf compiled, and the argument is compiled only
\* when the receiver compiled without error; implies and iff with an argument
\* count other than one fail.
C8_ReceiverFirst ==
  JustCompiled /\ IsMethodCall(LastExpr) =>
    /\ (/\ LastExpr.fun.x.kind = "Ident"
        /\ Len(LastExpr.args) = 1
        /\ LastExpr.args[1].kind = "Ident"
        /\ LastExpr.args[1].name # LastExpr.fun.x.name
        => /\ last.log[1].leaf = LastExpr.fun.x.name
           /\ (\E k \in 1..Len(last.log) : last.log[k].leaf = LastExpr.args[1].name)
                => last.log[1].err = NoErr)
    /\ (LastExpr.fun.sel \in {"implies", "iff"} /\ Len(LastExpr.args) # 1 =>
          last.panic \/ last.err # NoErr)

\* C9 (as claimed): every term of the constraint set has sort Bool.
C9_ConstraintsAreBool ==
  \A k \in 1..Len(solver.cons) : solver.cons[k] # Nil /\ solver.cons[k].sort = "Bool"

ModelLines == SelectSeq(out, LAMBDA l : l.kind = "model")

\* C10 (as claimed): the exit status by outcome, 3 for unsatisfiable only.
C10_ExitCodesOriginal ==
  pc = "exit" =>
    /\ nArgs < 2 => exitCode = 1
    /\ err # NoErr => exitCode = 2 /\ verdict = "none" /\ ModelLines = <<>>
    /\ verdict = "False" => exitCode = 3
    /\ verdict = "True" => exitCode = 0 /\ Len(ModelLines) = Cardinality(DOMAIN varTab)
    /\ exitCode = 3 => verdict = "False"

\* C10 (amended): the exit status by outcome; 3 for every verdict other than
\* satisfiable, that is unsatisfiable or unknown.
C10_ExitCodes ==
  pc = "exit" =>
    /\ nArgs < 2 => exitCode = 1
    /\ err # NoErr => exitCode = 2 /\ verdict = "none" /\ ModelLines = <<>>
    /\ verdict \in {"False", "Undef"} => exitCode = 3 /\ ModelLines = <<>>
    /\ verdict = "True" => exitCode = 0 /\ Len(ModelLines) = Cardinality(DOMAIN varTab)
    /\ exitCode = 3 => verdict \in {"False", "Undef"}
    /\ exitCode = 0 => verdict = "True"
    /\ exitCode = 1 => nArgs < 2

\* A run that ended with status 3 on an unknown verdict after compiling a
\* declaration and an assert.
C10_Witness ==
  /\ pc = "exit"
  /\ exitCode = 3
  /\ verdict = "Undef"
  /\ DOMAIN varTab # {}
  /\ Len(solver.cons) > 0

RECURSIVE EntryPointBody(_, _)
EntryPointBody(decls, k) ==
  IF k > Len(decls) THEN <<>>
  ELSE IF decls[k].kind = "FuncDecl" /\ decls[k].name = "main" /\ decls[k].nparams = 0
       THEN decls[k].body
       ELSE EntryPointBody(decls, k + 1)

\* C12 (as claimed, for files that parse and whose functions have bodies):
\* the adapter returns the body of the first function named main without
\* parameters, the empty list when the package is smtl and there is none, and
\* fails with UnsupportedModule when the package is not smtl.
C12_EntryPoint ==
  /\ (pc = "loop" /\ i = 1 =>
        file.pkg = smtlPkgName /\ stmts = EntryPointBody(file.decls, 1))
  /\ (pc = "returned" /\ file.syntaxOK /\ file.pkg # smtlPkgName =>
        ErrKind(err) = "UnsupportedModule" /\ err.name = file.pkg /\ ~solver.open)

\* What compiling the left operand of the latest assert's binary operation
\* gives on its own.
LeftOperand == processExpr(varTab, LastExpr.x)

\* C13: when the left operand of a binary operation fails, the operation
\* fails with the left operand's error and without a term, and nothing is
\* compiled beyond the leaves of the left operand, whatever the right operand
\* and the operator are.
C13_LeftBeforeRight ==
  JustCompiled /\ LastExpr.kind = "BinaryExpr" /\ LeftOperand.err # NoErr =>
    /\ ~last.panic
    /\ last.err = LeftOperand.err
    /\ last.r = Nil
    /\ last.log = LeftOperand.log

\* A binary operation with an unsupported operator and both operands
\* undeclared, compiled: the left operand's error came out and the right
\* operand was not visited.
C13_Witness ==
  /\ JustCompiled
  /\ LastExpr.kind = "BinaryExpr"
  /\ BopMethod(LastExpr.op) = "none"
  /\ LeftOperand.err # NoErr
  /\ processExpr(varTab, LastExpr.y).err # NoErr
  /\ pc = "exit"
  /\ err = LeftOperand.err
  /\ \A k \in 1..Len(last.log) : last.log[k].leaf # LastExpr.y.name

\* The number of assert statements among the first k statements.
RECURSIVE NumAsserts(_, _)
NumAsserts(ss, k) ==
  IF k = 0 THEN 0
  ELSE NumAsserts(ss, k - 1) + (IF IsAssert(ss[k]) THEN 1 ELSE 0)

\* C14: an assert statement that compiles appends the term its argument
\* compiled to at the end of the constraint set and leaves the symbol table
\* alone; a declaration statement leaves the constraint set alone; and when
\* the compilation returns without error the constraint set has one term per
\* assert statement of the body.
C14_OneTermPerAssert ==
  [][ /\ (pc = "loop" /\ i <= Len(stmts) /\ pc' # "exit" =>
            /\ (IsAssert(stmts[i]) =>
                  /\ varTab' = varTab
                  /\ (err' = NoErr =>
                        last'.r # Nil /\ solver'.cons = Append(solver.cons, last'.r)))
            /\ (stmts[i].kind = "DeclStmt" => solver'.cons = solver.cons)
            /\ (err' = NoErr => Len(solver'.cons) = NumAsserts(stmts, i)))
      /\ (pc' = "returned" /\ err' = NoErr =>
            Len(solver'.cons) = NumAsserts(stmts', Len(stmts'))) ]_vars

\* A compilation that succeeded on a body with a declaration and an assert
\* over the declared name, or with two asserts of different terms.
C14_Witness ==
  /\ pc = "returned"
  /\ err = NoErr
  /\ Len(stmts) >= 2
  /\ \/ DOMAIN varTab # {} /\ Len(solver.cons) = 1 /\ solver.cons[1].args # <<>>
     \/ Len(solver.cons) = 2 /\ solver.cons[1] # solver.cons[2]

\* The sort a spec declares its names with.
DeclaredSort(spec) == IF spec.type.name = "int" THEN "Int" ELSE "Bool"

\* C15 (as claimed): after a compilation that returned without error, every
\* name of every spec of every var declaration statement of the body is in
\* the symbol table with the sort its spec declares.
C15_AllDeclared ==
  pc = "returned" /\ err = NoErr =>
    \A k \in 1..Len(stmts) :
      IsVarDecl(stmts[k]) =>
        \A s \in 1..Len(stmts[k].decl.specs) :
          \A n \in 1..Len(stmts[k].decl.specs[s].names) :
            LET name == stmts[k].decl.specs[s].names[n]
            IN  /\ name \in DOMAIN varTab
                /\ varTab[name].sort = DeclaredSort(stmts[k].decl.specs[s])

====
